---------------------------- MODULE Spec2Model ----------------------------
(***************************************************************************)
(* hfy2epub: the crawl engine of src/js/hfy2epub.js.                       *)
(*                                                                         *)
(* The page runs on one JavaScript event loop.  Every action below is one  *)
(* task of that loop, run to completion: a user-started call, a timer      *)
(* created by requestRedditJSON, or a readystatechange event of one of its *)
(* XMLHttpRequests.  A task includes every callback it invokes             *)
(* synchronously, so a cache hit continues a run inside the same action.   *)
(***************************************************************************)
EXTENDS Integers, Sequences, FiniteSets, TLC

\* --------------------------------------------------------------------------
\* Bounds of the model
\* --------------------------------------------------------------------------
PageLoadTime == 4000      \* Date.now() when the script is loaded
TickMs       == 1000      \* granularity of the clock
MaxIdleTicks == 1         \* clock ticks allowed while no timer is waiting

\* --------------------------------------------------------------------------
\* JavaScript values
\* --------------------------------------------------------------------------
\* undefined and null.  Strings are sequences of characters; a captured
\* identifier has at least one character and a href at least one segment,
\* so the empty sequence is free to stand for the two non-values.
Undefined == <<>>
Null      == <<>>

\* NaN, the value of timeInMsBetweenRequests that is not a number: every
\* number this variable takes is positive
NaN == -1
IsNaN(x) == x = NaN

\* Number(object) for an object without a numeric string form
ToNumber(object) == NaN

\* a * b
Times(a, b) == IF IsNaN(a) \/ IsNaN(b) THEN NaN ELSE a * b

\* String(undefined), as produced by "..." + undefined
UndefinedText == <<"u", "n", "d", "e", "f", "i", "n", "e", "d">>

LowerCase == {"a", "b", "c", "d", "e", "f", "i", "n", "t", "u"}
UpperCase == {"A", "B", "C"}
Alnum     == LowerCase \cup UpperCase

toLowerChar(ch) ==
    CASE ch = "A" -> "a"
      [] ch = "B" -> "b"
      [] ch = "C" -> "c"
      [] OTHER    -> ch

toLowerCase(s) == [i \in 1..Len(s) |-> toLowerChar(s[i])]

\* --------------------------------------------------------------------------
\* URLs.  A URL is a sequence of segments: an alphanumeric character, or one
\* of the literal pieces below.
\* --------------------------------------------------------------------------
ShortHost  == "http://redd.it/"
ShortMark  == {"http://redd.it/", "https://REDD.IT/"}      \* /redd\.it\//i
CanonHost  == "https://www.reddit.com/"
CanonPath  == "r/HFY/comments/"
LongMark   == {"r/HFY/comments/", "r/hfy/comments/"}       \* /r\/HFY\/comments\//i
Slash      == "/"

\* the longest run of alphanumeric characters of url that starts at index i
RECURSIVE AlnumRun(_, _)
AlnumRun(url, i) ==
    IF i > Len(url) \/ url[i] \notin Alnum
    THEN <<>>
    ELSE <<url[i]>> \o AlnumRun(url, i + 1)

\* url.match(/<mark>([A-Za-z0-9]+)/i): the capture group of the leftmost
\* match, or Undefined when the pattern matches nowhere
RegexCapture(url, marks) ==
    LET hits == {i \in 1..Len(url) : url[i] \in marks /\ AlnumRun(url, i + 1) # <<>>}
    IN  IF hits = {}
        THEN Undefined
        ELSE AlnumRun(url, (CHOOSE i \in hits : \A j \in hits : i <= j) + 1)

\* nameFromURL that returns the identifier as it is spelled
nameFromURLKeepsCase(url) ==
    IF RegexCapture(url, ShortMark) # Undefined
    THEN RegexCapture(url, ShortMark)
    ELSE IF RegexCapture(url, LongMark) # Undefined
         THEN RegexCapture(url, LongMark)
         ELSE Undefined

nameFromURL(url) ==
    IF RegexCapture(url, ShortMark) # Undefined
    THEN toLowerCase(RegexCapture(url, ShortMark))
    ELSE IF RegexCapture(url, LongMark) # Undefined
         THEN toLowerCase(RegexCapture(url, LongMark))
         ELSE Undefined

urlFromName(name) ==
    <<CanonHost, CanonPath>>
        \o (IF name = Undefined THEN UndefinedText ELSE name)
        \o <<Slash>>

unshorten(url) == urlFromName(nameFromURL(url))

\* --------------------------------------------------------------------------
\* The remote site: posts, their bodies and the JSON the API returns
\* --------------------------------------------------------------------------
Ids == {<<"a">>, <<"b">>, <<"c">>}

Upper(id) == [i \in 1..Len(id) |->
                 CASE id[i] = "a" -> "A" [] id[i] = "b" -> "B"
                   [] id[i] = "c" -> "C" [] OTHER -> id[i]]

\* the accepted forms in which a link or a user may name post id
ShortURL(id) == <<ShortHost>> \o Upper(id)
LongURL(id)  == <<"https://reddit.com/", "r/hfy/comments/">> \o id \o <<Slash, "t">>
CanonURL(id) == urlFromName(id)
OtherURL     == <<"https://example.com/", "x">>

\* a hyperlink of a post body, as the DOM parser delivers it
Link(text, href) == [text |-> text, href |-> href]

\* the value of the #nextPostRegex input, compiled with the "i" flag
TextMatchesRegex(text) == text \in {"next", "Next"}

\* the parsed response of <post url>.json: json[0].data.children[0].data
PostJSON(id, body) ==
    [kind |-> "Listing",
     data |-> [author        |-> <<"author", id>>,
               title         |-> <<"title", id>>,
               name          |-> id,
               selftext_html |-> body,
               url           |-> CanonURL(id)]]

\* a 200 response whose body is JSON of another shape
OtherJSON == [kind |-> "other", data |-> <<>>]

\* the empty string
EmptyString == <<>>

\* a listing page as the DOM parser delivers it: the text of its h1, h2 and
\* h3 elements and its a elements, each in document order
Page(h1, h2, h3, links) == [h1 |-> h1, h2 |-> h2, h3 |-> h3, links |-> links]

\* the parsed response of <listing page url>.json
WikiJSON(kind, page) == [kind |-> kind, data |-> [content_html |-> page]]

\* the post a URL names on the site, Undefined when it names none
PostAt(url) ==
    IF \E id \in Ids : url = CanonURL(id)
    THEN CHOOSE id \in Ids : url = CanonURL(id)
    ELSE Undefined

\* --------------------------------------------------------------------------
\* State
\* --------------------------------------------------------------------------
VARIABLES
    requestRedditJsonCache,   \* Map: url -> parsed JSON
    timeOfLastRealRequest,    \* Date.now() of the latest readystatechange
    timeInMsBetweenRequests,  \* minimum interval in ms
    now,                      \* Date.now()
    timers,                   \* setTimeout callbacks of requestRedditJSON not yet run
    xhrs,                     \* XMLHttpRequests sent and not yet DONE
    runs,                     \* the calls started so far, with their closures' variables
    world,                    \* the bodies the site may send for each post
    lastDoneAt,               \* history: Date.now() of the latest completed request
    firstJson                 \* history: url -> value of its first successful cached fetch

vars == <<requestRedditJsonCache, timeOfLastRealRequest, timeInMsBetweenRequests,
          now, timers, xhrs, runs, world, lastDoneAt, firstJson>>

Max(a, b) == IF a >= b THEN a ELSE b

\* --------------------------------------------------------------------------
\* Runs: one record per call of collectPartPosts or findSeriesParts made by
\* the page.
\*
\* The caller's handlers are inputs of every task: stop = n > 0 says that the
\* n-th handler the task invokes returns false, stop = 0 that none does.
\* --------------------------------------------------------------------------
NewRun(kind, parts, startUrl) ==
    [kind          |-> kind,
     parts         |-> parts,
     startUrl      |-> startUrl,
     posts         |-> <<>>,       \* posts / collectedPosts
     previousNames |-> <<>>,
     events        |-> <<>>,       \* history: fetches started and handlers invoked
     aborted       |-> 0,          \* history: the event whose handler returned false
     crashed       |-> FALSE]      \* history: an exception left a callback

\* r after collectPost was called for part i / for url
Fetch(r, i, url) ==
    [r EXCEPT !.events = Append(@, [ev |-> "fetch", i |-> i, arg |-> url])]

\* r after the handler callbacks[ev] was invoked with arg
Notify(r, ev, i, arg) ==
    [r EXCEPT !.events = Append(@, [ev |-> ev, i |-> i, arg |-> arg])]

\* the handler invoked now returns false; the oracle after that invocation
ReturnsFalse(stop) == stop = 1
After(stop)        == IF stop = 0 THEN 0 ELSE stop - 1

Abort(r) == [r EXCEPT !.aborted = Len(r.events)]
Throw(r) == [r EXCEPT !.crashed = TRUE]

\* what a task leaves behind: the run, and the requestRedditJSON calls it made
Ret(r, reqs) == [run |-> r, reqs |-> reqs]

Continuation(fn, i, url) == [fn |-> fn, i |-> i, url |-> url]

\* --------------------------------------------------------------------------
\* collectPost: the body of its success callback (lines 182-191)
\* --------------------------------------------------------------------------
HasPostShape(json) == json.kind = "Listing"

collectPost(json) ==
    [author  |-> json.data.author,
     title   |-> json.data.title,
     name    |-> json.data.name,
     content |-> json.data.selftext_html,
     url     |-> json.data.url]

\* --------------------------------------------------------------------------
\* collectPartPosts
\* --------------------------------------------------------------------------
RECURSIVE collectPart(_, _, _, _)

\* partCollected that keeps the title of the fetched post
partCollectedOwnTitle(r, i, json, cache, stop) ==
    IF ~HasPostShape(json)
    THEN Ret(Throw(r), <<>>)
    ELSE LET post == collectPost(json)
             r1   == Notify(r, "collected", i, post)
         IN  IF ReturnsFalse(stop)
             THEN Ret(Abort(r1), <<>>)
             ELSE collectPart([r1 EXCEPT !.posts = Append(@, post)], i + 1,
                              cache, After(stop))

\* the success callback collectPart(i) hands to collectPost
partCollected(r, i, json, cache, stop) ==
    IF ~HasPostShape(json)
    THEN Ret(Throw(r), <<>>)
    ELSE LET part == r.parts[i]
             post == [collectPost(json) EXCEPT !.title = part.title]
             r1   == Notify(r, "collected", i, post)
         IN  IF ReturnsFalse(stop)
             THEN Ret(Abort(r1), <<>>)
             ELSE collectPart([r1 EXCEPT !.posts = Append(@, post)], i + 1,
                              cache, After(stop))

\* partFailed that reports the error and goes on with the next part
partFailedSkips(r, i, error) ==
    collectPart(Notify(r, "error", i, [message |-> error, part |-> r.parts[i]]),
                i + 1, requestRedditJsonCache, 0)

\* the error callback collectPart(i) hands to collectPost
partFailed(r, i, error) ==
    Ret(Notify(r, "error", i, [message |-> error, part |-> r.parts[i]]), <<>>)

\* collectPart that does not wait for a fetch before it starts the next
collectPartFanOut(r, i, cache, stop) ==
    IF i > Len(r.parts)
    THEN LET r1 == Notify(r, "done", 0, r.posts)
         IN  Ret(IF ReturnsFalse(stop) THEN Abort(r1) ELSE r1, <<>>)
    ELSE LET url == unshorten(r.parts[i].url)
             r1  == Fetch(r, i, r.parts[i].url)
         IN  IF url \in DOMAIN cache
             THEN partCollected(r1, i, cache[url], cache, stop)
             ELSE LET rest == collectPart(r1, i + 1, cache, stop)
                  IN  Ret(rest.run,
                          <<[url |-> url, k |-> Continuation("part", i, Null)]>>
                              \o rest.reqs)

\* collectPart(i), parts counted from 1
collectPart(r, i, cache, stop) ==
    IF i > Len(r.parts)
    THEN LET r1 == Notify(r, "done", 0, r.posts)
         IN  Ret(IF ReturnsFalse(stop) THEN Abort(r1) ELSE r1, <<>>)
    ELSE LET url == unshorten(r.parts[i].url)
             r1  == Fetch(r, i, r.parts[i].url)
         IN  IF url \in DOMAIN cache
             THEN partCollected(r1, i, cache[url], cache, stop)
             ELSE Ret(r1, <<[url |-> url, k |-> Continuation("part", i, Null)]>>)

\* --------------------------------------------------------------------------
\* findNextURL and findSeriesParts
\* --------------------------------------------------------------------------
includes(seq, x) == \E n \in 1..Len(seq) : seq[n] = x

RECURSIVE findNextURLFrom(_, _, _)

\* the loop without the test of the link text
findNextURLFromAnyText(content, previousNames, i) ==
    IF i > Len(content)
    THEN Null
    ELSE IF ~includes(previousNames, nameFromURL(content[i].href))
         THEN content[i].href
         ELSE findNextURLFrom(content, previousNames, i + 1)

\* the loop without the test of the visited names
findNextURLFromIgnoresVisited(content, previousNames, i) ==
    IF i > Len(content)
    THEN Null
    ELSE IF TextMatchesRegex(content[i].text)
         THEN content[i].href
         ELSE findNextURLFrom(content, previousNames, i + 1)

\* the for loop of findNextURL from link i on
findNextURLFrom(content, previousNames, i) ==
    IF i > Len(content)
    THEN Null
    ELSE IF TextMatchesRegex(content[i].text)
            /\ ~includes(previousNames, nameFromURL(content[i].href))
         THEN content[i].href
         ELSE findNextURLFrom(content, previousNames, i + 1)

findNextURL(content, previousNames) == findNextURLFrom(content, previousNames, 1)

RECURSIVE collectPostRecurse(_, _, _, _)

\* postCollected that records the name of the post after it looked for the
\* next link
postCollectedPushesLate(r, url, json, cache, stop) ==
    IF ~HasPostShape(json)
    THEN Ret(Throw(r), <<>>)
    ELSE LET post == collectPost(json)
             r1   == Notify([r EXCEPT !.posts = Append(@, post)], "collected", 0, post)
             next == findNextURL(post.content, r1.previousNames)
             r2   == [r1 EXCEPT !.previousNames = Append(@, nameFromURL(url))]
             r3   == Notify(r2, "foundUrl", 0, next)
             r4   == Notify(r2, "done", 0, r2.posts)
         IN  IF ReturnsFalse(stop)
             THEN Ret(Abort(r1), <<>>)
             ELSE IF next # Null
                  THEN IF ReturnsFalse(After(stop))
                       THEN Ret(Abort(r3), <<>>)
                       ELSE collectPostRecurse(r3, next, cache, After(After(stop)))
                  ELSE Ret(IF ReturnsFalse(After(stop)) THEN Abort(r4) ELSE r4, <<>>)

\* postCollected that does not look at what the foundUrl handler returns
postCollectedDeaf(r, url, json, cache, stop) ==
    IF ~HasPostShape(json)
    THEN Ret(Throw(r), <<>>)
    ELSE LET post == collectPost(json)
             r1   == Notify([r EXCEPT !.posts = Append(@, post)], "collected", 0, post)
             r2   == [r1 EXCEPT !.previousNames = Append(@, nameFromURL(url))]
             next == findNextURL(post.content, r2.previousNames)
             r3   == Notify(r2, "foundUrl", 0, next)
             r4   == Notify(r2, "done", 0, r2.posts)
         IN  IF ReturnsFalse(stop)
             THEN Ret(Abort(r1), <<>>)
             ELSE IF next # Null
                  THEN collectPostRecurse(
                           IF ReturnsFalse(After(stop)) THEN Abort(r3) ELSE r3,
                           next, cache, After(After(stop)))
                  ELSE Ret(IF ReturnsFalse(After(stop)) THEN Abort(r4) ELSE r4, <<>>)

\* postCollected that announces the next URL after it has started to fetch it
postCollectedAnnouncesLate(r, url, json, cache, stop) ==
    IF ~HasPostShape(json)
    THEN Ret(Throw(r), <<>>)
    ELSE LET post == collectPost(json)
             r1   == Notify([r EXCEPT !.posts = Append(@, post)], "collected", 0, post)
             r2   == [r1 EXCEPT !.previousNames = Append(@, nameFromURL(url))]
             next == findNextURL(post.content, r2.previousNames)
             r4   == Notify(r2, "done", 0, r2.posts)
             res  == collectPostRecurse(r2, next, cache, After(After(stop)))
         IN  IF ReturnsFalse(stop)
             THEN Ret(Abort(r1), <<>>)
             ELSE IF next # Null
                  THEN Ret(Notify(res.run, "foundUrl", 0, next), res.reqs)
                  ELSE Ret(IF ReturnsFalse(After(stop)) THEN Abort(r4) ELSE r4, <<>>)

\* the success callback collectPostRecurse(url) hands to collectPost
postCollected(r, url, json, cache, stop) ==
    IF ~HasPostShape(json)
    THEN Ret(Throw(r), <<>>)
    ELSE LET post == collectPost(json)
             r1   == Notify([r EXCEPT !.posts = Append(@, post)], "collected", 0, post)
             r2   == [r1 EXCEPT !.previousNames = Append(@, nameFromURL(url))]
             next == findNextURL(post.content, r2.previousNames)
             r3   == Notify(r2, "foundUrl", 0, next)
             r4   == Notify(r2, "done", 0, r2.posts)
         IN  IF ReturnsFalse(stop)
             THEN Ret(Abort(r1), <<>>)
             ELSE IF next # Null
                  THEN IF ReturnsFalse(After(stop))
                       THEN Ret(Abort(r3), <<>>)
                       ELSE collectPostRecurse(r3, next, cache, After(After(stop)))
                  ELSE Ret(IF ReturnsFalse(After(stop)) THEN Abort(r4) ELSE r4, <<>>)

\* postFailed that ends the run as if no further link had been found
postFailedThenDone(r, url, error, stop) ==
    LET r1 == Notify(r, "error", 0, error)
        r2 == Notify(r1, "done", 0, r1.posts)
    IN  Ret(IF ReturnsFalse(stop) THEN Abort(r1) ELSE r2, <<>>)

\* the error callback collectPostRecurse(url) hands to collectPost
postFailed(r, url, error, stop) ==
    LET r1 == Notify(r, "error", 0, error)
    IN  Ret(IF ReturnsFalse(stop) THEN Abort(r1) ELSE r1, <<>>)

collectPostRecurse(r, url, cache, stop) ==
    LET r1 == Fetch(r, 0, url)
    IN  IF unshorten(url) \in DOMAIN cache
        THEN postCollected(r1, url, cache[unshorten(url)], cache, stop)
        ELSE Ret(r1, <<[url |-> unshorten(url), k |-> Continuation("recurse", 0, url)]>>)

\* --------------------------------------------------------------------------
\* collectSeriesInfoFromWikiPage
\* --------------------------------------------------------------------------
NewWikiRun(url) ==
    [kind    |-> "wiki",
     url     |-> url,
     title   |-> EmptyString,
     parts   |-> <<>>,
     events  |-> <<>>,
     aborted |-> 0,
     crashed |-> FALSE]

\* url + " is not a wiki page"
NotAWikiPage(url) == [notAWikiPage |-> url]

\* json.data.content_html is a string
HasContent(json) == "content_html" \in DOMAIN json.data

\* every a element has a href: nameFromURL(null) throws
HaveHref(links) == \A i \in 1..Len(links) : links[i].href # Null

\* guessTitle that looks for the headings from the lowest level up
guessTitleLowestLevel(doc) ==
    IF Len(doc.h3) > 0
    THEN doc.h3[1]
    ELSE IF Len(doc.h2) > 0
         THEN doc.h2[1]
         ELSE IF Len(doc.h1) > 0
              THEN doc.h1[1]
              ELSE EmptyString

\* the guess of the title (lines 67-81)
guessTitle(doc) ==
    IF Len(doc.h1) > 0
    THEN doc.h1[1]
    ELSE IF Len(doc.h2) > 0
         THEN doc.h2[1]
         ELSE IF Len(doc.h3) > 0
              THEN doc.h3[1]
              ELSE EmptyString

RECURSIVE findParts(_, _)

\* the loop without the test of the name
findPartsKeepsAll(links, i) ==
    IF i > Len(links)
    THEN <<>>
    ELSE <<[name  |-> nameFromURL(links[i].href),
            url   |-> links[i].href,
            title |-> links[i].text]>>
             \o findParts(links, i + 1)

\* the loop over the links (lines 86-98) from link i on
findParts(links, i) ==
    IF i > Len(links)
    THEN <<>>
    ELSE (IF nameFromURL(links[i].href) # Undefined
          THEN <<[name  |-> nameFromURL(links[i].href),
                  url   |-> links[i].href,
                  title |-> links[i].text]>>
          ELSE <<>>)
             \o findParts(links, i + 1)

\* the success callback handed to collectPost (lines 102-108)
seriesCompleted(r, json) ==
    IF ~HasPostShape(json)
    THEN Ret(Throw(r), <<>>)
    ELSE LET post == collectPost(json)
         IN  Ret(Notify(r, "completion", 0,
                        [title  |-> IF r.title = EmptyString THEN post.title ELSE r.title,
                         author |-> post.author,
                         parts  |-> r.parts]),
                 <<>>)

\* errorCallback, handed on to requestRedditJSONCached and to collectPost
seriesFailed(r, error) == Ret(Notify(r, "error", 0, error), <<>>)

\* the success callback handed to requestRedditJSONCached (lines 59-111)
pageFetched(r, json, cache) ==
    LET r1 == IF json.kind # "wikipage"
              THEN Notify(r, "error", 0, NotAWikiPage(r.url))
              ELSE r
    IN  IF ~HasContent(json)
        THEN Ret(Throw(r1), <<>>)
        ELSE IF ~HaveHref(json.data.content_html.links)
             THEN Ret(Throw(r1), <<>>)
             ELSE LET doc == json.data.content_html
                      r2  == [r1 EXCEPT !.title = guessTitle(doc),
                                        !.parts = findParts(doc.links, 1)]
                  IN  IF Len(r2.parts) > 0
                      THEN LET url == unshorten(r2.parts[1].url)
                               r3  == Fetch(r2, 1, r2.parts[1].url)
                           IN  IF url \in DOMAIN cache
                               THEN seriesCompleted(r3, cache[url])
                               ELSE Ret(r3, <<[url |-> url,
                                               k   |-> Continuation("series", 1, Null)]>>)
                      ELSE Ret(r2, <<>>)

collectSeriesInfoFromWikiPage(r, url, cache) ==
    LET r1 == Fetch(r, 0, url)
    IN  IF url \in DOMAIN cache
        THEN pageFetched(r1, cache[url], cache)
        ELSE Ret(r1, <<[url |-> url, k |-> Continuation("page", 0, url)]>>)

\* --------------------------------------------------------------------------
\* requestRedditJSON: the rate-limited fetch layer
\* --------------------------------------------------------------------------
\* Math.max(0, timeOfLastRealRequest + timeInMsBetweenRequests - Date.now())
\* as setTimeout takes it: the sum and the maximum are NaN when the interval
\* is, and setTimeout takes NaN for 0
Delay(last) ==
    IF IsNaN(timeInMsBetweenRequests)
    THEN 0
    ELSE Max(0, last + timeInMsBetweenRequests - now)

\* requestRedditJSON called at time now by run rid: the timer it creates;
\* last is timeOfLastRealRequest at the time of the call
requestRedditJSON(rid, req, last) ==
    [run |-> rid,
     url |-> req.url,
     k   |-> req.k,
     at  |-> now + Delay(last)]

Schedule(rid, reqs, last) ==
    {requestRedditJSON(rid, reqs[n], last) : n \in 1..Len(reqs)}

\* "Failed to retrieve url '" + url + "' (" + statusText + ")"
ErrorText(url, statusText) == [failed |-> url, statusText |-> statusText]

\* successCallback / errorCallback of the request, by the closure that made it
OnSuccess(r, k, json, cache, stop) ==
    CASE k.fn = "part"    -> partCollected(r, k.i, json, cache, stop)
      [] k.fn = "recurse" -> postCollected(r, k.url, json, cache, stop)
      [] k.fn = "page"    -> pageFetched(r, json, cache)
      [] k.fn = "series"  -> seriesCompleted(r, json)

OnError(r, k, error, stop) ==
    CASE k.fn = "part"    -> partFailed(r, k.i, error)
      [] k.fn = "recurse" -> postFailed(r, k.url, error, stop)
      [] k.fn = "page"    -> seriesFailed(r, error)
      [] k.fn = "series"  -> seriesFailed(r, error)

\* the bodies the site may send with status 200 for url
Bodies(url) ==
    IF url \in DOMAIN world
    THEN {WikiJSON(kind, page) : kind \in {"wikipage", "other"}, page \in world[url]}
             \cup {OtherJSON}
    ELSE IF PostAt(url) = Undefined
         THEN {OtherJSON}
         ELSE {PostJSON(PostAt(url), body) : body \in world[PostAt(url)]}
                  \cup {OtherJSON}

\* --------------------------------------------------------------------------
\* Inputs
\* --------------------------------------------------------------------------
MaxParts == 3      \* longest part list
MaxStop  == 3      \* latest handler invocation of a task that returns false
MaxLinks == 2      \* most links in a post body
MaxWikiLinks == 3  \* most links in a listing page
MaxIdLen == 2      \* longest identifier handed to unshorten
MaxCalls == 2      \* most calls of unshorten
MaxSeconds == 2    \* largest delay the user enters, in seconds

IdA == <<"a">>
IdB == <<"b">>
IdC == <<"c">>

Part(n, url) == [name |-> nameFromURL(url), title |-> <<"listing", n>>, url |-> url]

\* the lists of at most MaxParts parts over urls; part n carries the n-th
\* listing title
PartListsOver(urls) ==
    UNION {{[n \in 1..len |-> Part(n, f[n])] : f \in [1..len -> urls]} :
              len \in 0..MaxParts}

\* the part lists of a user who collects on his own
PartLists ==
    PartListsOver({ShortURL(IdA), LongURL(IdA), CanonURL(IdB), ShortURL(IdC), OtherURL})

\* the links of the post bodies: one that does not match the pattern, and
\* a matching one to every post, in the three forms
PrevC == Link("prev", CanonURL(IdC))
NextA == Link("next", LongURL(IdA))
NextB == Link("Next", ShortURL(IdB))
NextC == Link("next", CanonURL(IdC))

\* the sequences of at most len links
Contents(len) == UNION {[1..l -> {PrevC, NextA, NextB, NextC}] : l \in 0..len}

\* a site of which nothing is known: posts a and b have any body of at most
\* MaxLinks links, post c any of at most one link
AnyWorld ==
    (IdA :> Contents(MaxLinks)) @@ (IdB :> Contents(MaxLinks)) @@ (IdC :> Contents(1))

\* a site whose posts a -> b -> c -> a refer to each other; its author
\* edits post a between two requests
ChainWorld ==
    (IdA :> {<<PrevC, NextB>>, <<NextB>>})
 @@ (IdB :> {<<NextA, NextC>>})
 @@ (IdC :> {<<NextA>>})

\* a series of two posts, the first of which is edited between two requests
PairWorld ==
    (IdA :> {<<PrevC, NextB>>, <<NextB>>})
 @@ (IdB :> {<<NextA>>})
 @@ (IdC :> {<<>>})

\* the listing page of a series
WikiURL == <<CanonHost, "r/HFY/wiki/series/", "x">>

\* the links of a listing page: to two posts in two forms, to another site,
\* and an anchor that has no href
PartA    == Link("Part A", ShortURL(IdA))
PartB    == Link("Part B", LongURL(IdB))
Home     == Link("Home", OtherURL)
Anchor   == Link("top", Null)

\* the headings of a level: none, an empty one, or two of them
Headings(level) == {<<>>, <<EmptyString>>, <<<<level>>, <<level, "again">>>>}

\* the listing pages of at most MaxWikiLinks links
Pages ==
    {Page(h1, h2, h3, links) :
        h1 \in Headings("h1"), h2 \in {<<>>, <<<<"h2">>>>}, h3 \in {<<>>, <<<<"h3">>>>},
        links \in UNION {[1..l -> {PartA, PartB, Home, Anchor}] : l \in 0..MaxWikiLinks}}

\* a site whose listing page is page
WikiWorld(page) ==
    (IdA :> {<<>>}) @@ (IdB :> {<<NextA>>}) @@ (IdC :> {<<>>}) @@ (WikiURL :> {page})

\* two lowercase identifiers of every length up to MaxIdLen, and the ways
\* to spell one of them in upper and lower case
LowIds == {[i \in 1..l |-> IF i = 1 THEN c ELSE "b"] : c \in {"a", "b"}, l \in 1..MaxIdLen}
SpellingsOf(low) ==
    {s \in [1..Len(low) -> {"a", "b", "A", "B"}] :
        \A i \in 1..Len(low) : s[i] \in {low[i], Upper(<<low[i]>>)[1]}}

\* the accepted forms of a URL: two short and two long ones
Forms == {"short", "SHORT", "long", "canonical"}
Spell(form, id) ==
    CASE form = "short"     -> <<"http://redd.it/">> \o id
      [] form = "SHORT"     -> <<"https://REDD.IT/">> \o id \o <<Slash>>
      [] form = "long"      -> <<"https://reddit.com/", "r/hfy/comments/">> \o id \o <<Slash, "t">>
      [] form = "canonical" -> <<CanonHost, CanonPath>> \o id \o <<Slash>>

\* every accepted spelling of a URL, with the lowercase identifier it names
AcceptedSpellings ==
    UNION {{[url |-> Spell(form, id), low |-> low] :
               form \in Forms, id \in SpellingsOf(low)} : low \in LowIds}

AcceptedURLs == {a.url : a \in AcceptedSpellings}

\* the post bodies and visited lists handed to findNextURL: bodies of at
\* most MaxLinks links, among them a matching link to another site, and
\* lists without repetition
NextOther == Link("next", OtherURL)
PrevA     == Link("previous", ShortURL(IdA))
Bodies4FindNext ==
    UNION {[1..l -> {PrevA, PrevC, NextA, NextB, NextC, NextOther}] : l \in 0..MaxLinks}
VisitedLists ==
    {<<>>, <<IdA>>, <<IdB>>, <<IdA, IdB>>, <<IdB, IdA>>, <<IdC, IdA>>, <<IdA, IdB, IdC>>}

\* --------------------------------------------------------------------------
\* Actions
\* --------------------------------------------------------------------------
\* the page after its script has run
Loaded ==
    /\ requestRedditJsonCache = <<>>
    /\ timeOfLastRealRequest = 0
    /\ timeInMsBetweenRequests = 2000
    /\ now = PageLoadTime
    /\ timers = {}
    /\ xhrs = {}
    /\ runs = <<>>
    /\ lastDoneAt = -1
    /\ firstJson = <<>>

Init == Loaded /\ world = ChainWorld

\* no call of this kind was made yet: the page disables the button that
\* starts a call until the call has ended
NotStarted(kind) == \A n \in 1..Len(runs) : runs[n].kind # kind

\* a task started by the user that ends as res
Started(res) ==
    /\ runs' = Append(runs, res.run)
    /\ timers' = timers \cup Schedule(Len(runs) + 1, res.reqs, timeOfLastRealRequest)
    /\ UNCHANGED <<requestRedditJsonCache, timeOfLastRealRequest,
                   timeInMsBetweenRequests, now, xhrs, world, lastDoneAt, firstJson>>

\* collectPartPosts(parts, callbacks)
StartBatch(parts, stop) ==
    /\ NotStarted("batch")
    /\ Started(collectPart(NewRun("batch", parts, Null), 1,
                           requestRedditJsonCache, stop))

\* findSeriesParts(startUrl, callbacks)
StartFollow(startUrl, stop) ==
    /\ NotStarted("follow")
    /\ Started(collectPostRecurse(NewRun("follow", <<>>, startUrl), startUrl,
                                  requestRedditJsonCache, stop))

\* collectSeriesInfoFromWikiPage(url, completionCallback, errorCallback)
StartWiki(url) ==
    /\ NotStarted("wiki")
    /\ Started(collectSeriesInfoFromWikiPage(NewWikiRun(url), url,
                                             requestRedditJsonCache))

\* unshorten(url), called with a URL of the page (from = 0) or with the
\* value an earlier call returned (from = the call)
CallUnshorten(url, from) ==
    /\ Len(runs) < MaxCalls
    /\ runs' = Append(runs, [kind    |-> "unshorten",
                             url     |-> url,
                             from    |-> from,
                             events  |-> <<[ev |-> "return", i |-> 0, arg |-> unshorten(url)]>>,
                             aborted |-> 0,
                             crashed |-> FALSE])
    /\ UNCHANGED <<requestRedditJsonCache, timeOfLastRealRequest,
                   timeInMsBetweenRequests, now, timers, xhrs, world, lastDoneAt,
                   firstJson>>

\* findNextURL(content, previousNames), called once
CallFindNextURL(content, previousNames) ==
    /\ NotStarted("findNextURL")
    /\ runs' = Append(runs, [kind          |-> "findNextURL",
                             content       |-> content,
                             previousNames |-> previousNames,
                             events        |-> <<[ev  |-> "return", i |-> 0,
                                                  arg |-> findNextURL(content, previousNames)]>>,
                             aborted       |-> 0,
                             crashed       |-> FALSE])
    /\ UNCHANGED <<requestRedditJsonCache, timeOfLastRealRequest,
                   timeInMsBetweenRequests, now, timers, xhrs, world, lastDoneAt,
                   firstJson>>

\* the input event of #delayBetweenRequests, as the listener receives it
InputEvent(seconds) == [type |-> "input", target |-> [value |-> seconds]]

\* the listener of #delayBetweenRequests (lines 527-529), after the user
\* has entered seconds
DelayInput(seconds) ==
    /\ NotStarted("delay")
    /\ timeInMsBetweenRequests' = Times(ToNumber(InputEvent(seconds)), 1000)
    /\ runs' = Append(runs, [kind    |-> "delay",
                             seconds |-> seconds,
                             events  |-> <<>>,
                             aborted |-> 0,
                             crashed |-> FALSE])
    /\ UNCHANGED <<requestRedditJsonCache, timeOfLastRealRequest, now, timers,
                   xhrs, world, lastDoneAt, firstJson>>

\* the setTimeout callback of requestRedditJSON (lines 12-30): open() fires
\* readystatechange with readyState OPENED, then the request is sent
TimerFire(t) ==
    /\ t \in timers
    /\ now >= t.at
    /\ timers' = timers \ {t}
    /\ xhrs' = xhrs \cup {[run |-> t.run, url |-> t.url, k |-> t.k]}
    /\ timeOfLastRealRequest' = now
    /\ UNCHANGED <<requestRedditJsonCache, timeInMsBetweenRequests, now, runs,
                   world, lastDoneAt, firstJson>>

\* onreadystatechange with readyState HEADERS_RECEIVED or LOADING
XhrProgress(x) ==
    /\ x \in xhrs
    /\ timeOfLastRealRequest' = now
    /\ UNCHANGED <<requestRedditJsonCache, timeInMsBetweenRequests, now, timers,
                   xhrs, runs, world, lastDoneAt, firstJson>>

\* what every readystatechange with readyState DONE does
Completed(x, res) ==
    /\ xhrs' = xhrs \ {x}
    /\ lastDoneAt' = now
    /\ timeOfLastRealRequest' = now
    /\ runs' = [runs EXCEPT ![x.run] = res.run]
    /\ timers' = timers \cup Schedule(x.run, res.reqs, now)
    /\ UNCHANGED <<timeInMsBetweenRequests, now, world>>

\* onreadystatechange with readyState DONE and status 200
XhrSucceed(x, json, stop) ==
    /\ x \in xhrs
    /\ json \in Bodies(x.url)
    /\ requestRedditJsonCache' =
           [u \in DOMAIN requestRedditJsonCache \cup {x.url} |->
               IF u = x.url THEN json ELSE requestRedditJsonCache[u]]
    /\ firstJson' = IF x.url \in DOMAIN firstJson
                    THEN firstJson
                    ELSE firstJson @@ (x.url :> json)
    /\ Completed(x, OnSuccess(runs[x.run], x.k, json, requestRedditJsonCache', stop))

\* XhrFail that stores what the failed request returned
XhrFailStoresError(x, stop) ==
    /\ x \in xhrs
    /\ requestRedditJsonCache' =
           [u \in DOMAIN requestRedditJsonCache \cup {x.url} |->
               IF u = x.url THEN OtherJSON ELSE requestRedditJsonCache[u]]
    /\ Completed(x, OnError(runs[x.run], x.k, ErrorText(x.url, "Not Found"), stop))
    /\ UNCHANGED firstJson

\* onreadystatechange with readyState DONE and another status
XhrFail(x, stop) ==
    /\ x \in xhrs
    /\ Completed(x, OnError(runs[x.run], x.k, ErrorText(x.url, "Not Found"), stop))
    /\ UNCHANGED <<requestRedditJsonCache, firstJson>>

\* time passes
Tick ==
    /\ \/ now < PageLoadTime + MaxIdleTicks * TickMs
       \/ \E t \in timers : t.at > now
    /\ now' = now + TickMs
    /\ UNCHANGED <<requestRedditJsonCache, timeOfLastRealRequest,
                   timeInMsBetweenRequests, timers, xhrs, runs, world, lastDoneAt,
                   firstJson>>

\* the fetch layer and the site
Network ==
    \/ \E t \in timers : TimerFire(t)
    \/ \E x \in xhrs : XhrProgress(x)
    \/ \E x \in xhrs, stop \in 0..MaxStop : \E json \in Bodies(x.url) :
           XhrSucceed(x, json, stop)
    \/ \E x \in xhrs, stop \in 0..MaxStop : XhrFail(x, stop)
    \/ Tick

\* --------------------------------------------------------------------------
\* A user who submits one part list
\* --------------------------------------------------------------------------
NextBatch ==
    \/ \E parts \in PartLists, stop \in 0..MaxStop : StartBatch(parts, stop)
    \/ Network

SpecBatch == Init /\ [][NextBatch]_vars

\* --------------------------------------------------------------------------
\* A user who follows the links of one series on an unknown site
\* --------------------------------------------------------------------------
InitFollow == Loaded /\ world = AnyWorld

NextFollow ==
    \/ \E url \in {ShortURL(IdA), LongURL(IdB)}, stop \in 0..MaxStop :
           StartFollow(url, stop)
    \/ Network

SpecFollow == InitFollow /\ [][NextFollow]_vars

\* the browser runs every timer that is due and ends every request, and
\* time passes
FairSpecFollow ==
    /\ SpecFollow
    /\ WF_vars(Tick)
    /\ WF_vars(\E t \in timers : TimerFire(t))
    /\ WF_vars(\E x \in xhrs, stop \in 0..MaxStop :
                   \/ \E json \in Bodies(x.url) : XhrSucceed(x, json, stop)
                   \/ XhrFail(x, stop))

\* --------------------------------------------------------------------------
\* A user who asks for the series of a listing page, or of a post
\* --------------------------------------------------------------------------
InitWiki == Loaded /\ world \in {WikiWorld(page) : page \in Pages}

NextWiki ==
    \/ \E url \in {WikiURL, CanonURL(IdA)} : StartWiki(url)
    \/ Network

SpecWiki == InitWiki /\ [][NextWiki]_vars

\* --------------------------------------------------------------------------
\* A page that normalizes URLs
\* --------------------------------------------------------------------------
\* the page normalizes a URL, then other spellings of the same post and
\* the values it got back
NextNormalize ==
    \/ /\ Len(runs) < MaxCalls
       /\ \E url \in AcceptedURLs :
              /\ runs # <<>> => nameFromURL(url) = nameFromURL(runs[1].url)
              /\ CallUnshorten(url, 0)
    \/ \E n \in 1..Len(runs) : CallUnshorten(runs[n].events[1].arg, n)

SpecNormalize == Init /\ [][NextNormalize]_vars

\* --------------------------------------------------------------------------
\* A page that looks for the next link of a post body
\* --------------------------------------------------------------------------
NextFindNext ==
    \E content \in Bodies4FindNext, previousNames \in VisitedLists :
        CallFindNextURL(content, previousNames)

SpecFindNext == Init /\ [][NextFindNext]_vars

\* --------------------------------------------------------------------------
\* A user who changes the delay and follows a series
\* --------------------------------------------------------------------------
NextDelay ==
    \/ \E seconds \in 1..MaxSeconds : DelayInput(seconds)
    \/ \E stop \in 0..MaxStop : StartFollow(ShortURL(IdA), stop)
    \/ Network

SpecDelay == Init /\ [][NextDelay]_vars

\* --------------------------------------------------------------------------
\* A user who follows a series and collects parts of it at the same time
\* --------------------------------------------------------------------------
Next ==
    \/ \E parts \in PartListsOver({ShortURL(IdA), CanonURL(IdB)}), stop \in 0..MaxStop :
           StartBatch(parts, stop)
    \/ \E stop \in 0..MaxStop : StartFollow(LongURL(IdA), stop)
    \/ Network

InitPair == Loaded /\ world = PairWorld

Spec == InitPair /\ [][Next]_vars

\* --------------------------------------------------------------------------
\* Reading a run
\* --------------------------------------------------------------------------
EventsOf(r, ev) == SelectSeq(r.events, LAMBDA e : e.ev = ev)
Fired(r, ev)    == Len(EventsOf(r, ev))
Last(seq)       == seq[Len(seq)]

\* the part numbers of the events ev of r, in the order they happened
PartsOf(r, ev) == [p \in 1..Fired(r, ev) |-> EventsOf(r, ev)[p].i]

\* the requests of run n that wait for their timer or for their response
Waiting(n)  == {t \in timers : t.run = n}
InFlight(n) == {x \in xhrs : x.run = n}
Quiet(n)    == Waiting(n) = {} /\ InFlight(n) = {}

BatchRuns  == {n \in 1..Len(runs) : runs[n].kind = "batch"}
FollowRuns == {n \in 1..Len(runs) : runs[n].kind = "follow"}

\* the post the site serves for a part, in one of its versions, under the
\* title of the listing
IsPostFor(post, part) ==
    \E id \in Ids :
        /\ id = nameFromURL(part.url)
        /\ \E body \in world[id] :
               post = [collectPost(PostJSON(id, body)) EXCEPT !.title = part.title]

\* --------------------------------------------------------------------------
\* C1: in a batch whose first failing fetch is that of part k, the parts
\* 1..k-1 were reported as collected, in order, and no others; "error" fired
\* once and last, carrying part k and the error text of its URL; no part
\* after k was fetched and "done" did not fire.  A fetch that has ended
\* never leaves the batch without a notification unless a callback threw.
\* --------------------------------------------------------------------------
C1_FirstFailureEndsBatch ==
    \A n \in BatchRuns :
        LET r == runs[n]
        IN  /\ Fired(r, "error") <= 1
            /\ Fired(r, "error") = 1 =>
                   LET e == EventsOf(r, "error")[1]
                       k == e.i
                   IN  /\ Last(r.events) = e
                       /\ PartsOf(r, "collected") = [p \in 1..(k - 1) |-> p]
                       /\ PartsOf(r, "fetch") = [p \in 1..k |-> p]
                       /\ e.arg.part = r.parts[k]
                       /\ e.arg.message = ErrorText(unshorten(r.parts[k].url), "Not Found")
                       /\ Fired(r, "done") = 0
                       /\ Quiet(n)
            /\ (r.events # <<>> /\ Last(r.events).ev = "fetch" /\ Quiet(n)) => r.crashed

\* three parts, the second fetch failed
C1_Witness ==
    \E n \in BatchRuns :
        /\ Len(runs[n].parts) = 3
        /\ Fired(runs[n], "error") = 1
        /\ EventsOf(runs[n], "error")[1].i = 2
        /\ Fired(runs[n], "collected") = 1

\* --------------------------------------------------------------------------
\* C2: a batch has at most one fetch outstanding; the fetch of part i+1 is
\* started directly after the "collected" handler of part i returned, and
\* the outstanding fetch is the one started last.
\* --------------------------------------------------------------------------
C2_BatchIsSequential ==
    \A n \in BatchRuns :
        LET r == runs[n]
        IN  /\ Cardinality(Waiting(n)) + Cardinality(InFlight(n)) <= 1
            /\ \A p \in 1..Len(r.events) :
                   (r.events[p].ev = "fetch" /\ r.events[p].i > 1) =>
                       /\ p > 1
                       /\ r.events[p - 1].ev = "collected"
                       /\ r.events[p - 1].i = r.events[p].i - 1
            /\ \A q \in Waiting(n) :
                   Last(r.events).ev = "fetch" /\ Last(r.events).i = q.k.i
            /\ \A q \in InFlight(n) :
                   Last(r.events).ev = "fetch" /\ Last(r.events).i = q.k.i

\* the fetch of the second part is in flight
C2_Witness ==
    \E n \in BatchRuns :
        /\ \E x \in InFlight(n) : x.k.i = 2
        /\ Fired(runs[n], "collected") = 1

\* --------------------------------------------------------------------------
\* C3: "done" fires at most once and last, with one post per part: the i-th
\* is the post of parts[i] under the title parts[i].title, as reported by
\* the i-th "collected".  A batch that has nothing outstanding and saw no
\* error, abort or exception has fired "done"; an empty list fires "done"
\* with the empty list at once.
\* --------------------------------------------------------------------------
C3_DoneCarriesAllPosts ==
    \A n \in BatchRuns :
        LET r == runs[n]
        IN  /\ Fired(r, "done") <= 1
            /\ Fired(r, "done") = 1 =>
                   LET posts == EventsOf(r, "done")[1].arg
                   IN  /\ Last(r.events).ev = "done"
                       /\ Len(posts) = Len(r.parts)
                       /\ PartsOf(r, "collected") = [p \in 1..Len(r.parts) |-> p]
                       /\ \A i \in 1..Len(r.parts) :
                              /\ IsPostFor(posts[i], r.parts[i])
                              /\ EventsOf(r, "collected")[i].arg = posts[i]
            /\ (Quiet(n) /\ r.aborted = 0 /\ ~r.crashed /\ Fired(r, "error") = 0)
                   => Fired(r, "done") = 1
            /\ r.parts = <<>> => r.events = <<[ev |-> "done", i |-> 0, arg |-> <<>>]>>

\* three parts, two of them the same post in two forms, all collected
C3_Witness ==
    \E n \in BatchRuns :
        /\ Len(runs[n].parts) = 3
        /\ Fired(runs[n], "done") = 1
        /\ runs[n].aborted = 0
        /\ nameFromURL(runs[n].parts[1].url) = nameFromURL(runs[n].parts[3].url)
        /\ runs[n].parts[1].url # runs[n].parts[3].url

\* --------------------------------------------------------------------------
\* Link-following runs
\* --------------------------------------------------------------------------
\* the names of the first j posts of a list
NamesOf(posts, j) == {posts[p].name : p \in 1..j}

\* the links of a body that match the pattern and name no post of visited
Unvisited(content, visited) ==
    {i \in 1..Len(content) :
        TextMatchesRegex(content[i].text) /\ nameFromURL(content[i].href) \notin visited}

\* posts is a chain: it starts with the post of url, every post but the
\* last is followed by the post its first matching link to a post not yet
\* in the chain names, and the last post has no such link
IsChainFrom(posts, url) ==
    /\ posts # <<>>
    /\ posts[1].name = nameFromURL(url)
    /\ \A j \in 1..(Len(posts) - 1) :
           LET links == Unvisited(posts[j].content, NamesOf(posts, j))
           IN  /\ links # {}
               /\ \A i \in links :
                      (\A h \in links : i <= h) =>
                          nameFromURL(posts[j].content[i].href) = posts[j + 1].name
    /\ Unvisited(Last(posts).content, NamesOf(posts, Len(posts))) = {}

\* --------------------------------------------------------------------------
\* C4: when link-following fires "done" it does so once and last, with the
\* list of the collected posts in the order they were collected; the list is
\* the chain from the start post, one post longer than the number of links
\* that were followed.  A run that has nothing outstanding and saw no error,
\* abort or exception has fired "done".
\* --------------------------------------------------------------------------
C4_DoneCarriesTheChain ==
    \A n \in FollowRuns :
        LET r == runs[n]
        IN  /\ Fired(r, "done") <= 1
            /\ Fired(r, "done") = 1 =>
                   LET posts == EventsOf(r, "done")[1].arg
                   IN  /\ Last(r.events).ev = "done"
                       /\ posts = [p \in 1..Fired(r, "collected") |->
                                      EventsOf(r, "collected")[p].arg]
                       /\ Len(posts) = Fired(r, "foundUrl") + 1
                       /\ IsChainFrom(posts, r.startUrl)
                       /\ \A p \in 1..Len(posts) :
                              \E body \in world[posts[p].name] :
                                  posts[p] = collectPost(PostJSON(posts[p].name, body))
            /\ (Quiet(n) /\ r.aborted = 0 /\ ~r.crashed /\ Fired(r, "error") = 0)
                   => Fired(r, "done") = 1

\* a chain of two links was followed to its end, past a link that does not
\* match
C4_Witness ==
    \E n \in FollowRuns :
        /\ Fired(runs[n], "done") = 1
        /\ Fired(runs[n], "collected") = 3
        /\ runs[n].posts[1].content[1] = PrevC

\* --------------------------------------------------------------------------
\* C5: a link-following run fetches no post twice, whatever the links and
\* their forms, so it collects no more posts than there are, and it ends:
\* with "done", unless a fetch failed, a handler returned false or a
\* callback threw.
\* --------------------------------------------------------------------------
FetchedOnce(r) ==
    /\ \A p, q \in 1..Fired(r, "fetch") :
           p # q => unshorten(EventsOf(r, "fetch")[p].arg)
                        # unshorten(EventsOf(r, "fetch")[q].arg)
    /\ \A p, q \in 1..Len(r.posts) : p # q => r.posts[p].name # r.posts[q].name
    /\ Fired(r, "collected") <= Cardinality(Ids)

Ended(n) ==
    \/ Fired(runs[n], "done") = 1
    \/ Fired(runs[n], "error") = 1
    \/ runs[n].aborted > 0
    \/ runs[n].crashed

C5_FollowingEnds ==
    /\ [](\A n \in FollowRuns : FetchedOnce(runs[n]))
    /\ (runs # <<>>) ~> (runs # <<>> /\ Ended(1))

\* a run stopped at a post whose only matching links name visited posts in
\* the other form: a link to itself and a link back to the start
C5_Witness ==
    \E n \in FollowRuns :
        LET r == runs[n]
        IN  /\ Fired(r, "done") = 1
            /\ Len(r.posts) = 2
            /\ r.startUrl = ShortURL(IdA)
            /\ r.posts[2].name = IdB
            /\ r.posts[2].content = <<NextB, NextA>>

\* --------------------------------------------------------------------------
\* C9: once a handler has returned false the run fires no further handler
\* and starts no further fetch.
\* --------------------------------------------------------------------------
C9_AbortStopsTheRun ==
    \A n \in 1..Len(runs) :
        LET r == runs[n]
        IN  r.aborted > 0 =>
                /\ Len(r.events) = r.aborted
                /\ Last(r.events).ev \in {"collected", "foundUrl", "done", "error"}
                /\ Quiet(n)

\* a batch stopped by its "collected" handler next to a crawl stopped by its
\* "foundUrl" handler
C9_Witness ==
    /\ \E n \in BatchRuns :
           /\ runs[n].aborted > 0
           /\ Last(runs[n].events).ev = "collected"
           /\ Len(runs[n].parts) > Fired(runs[n], "collected")
    /\ \E n \in FollowRuns :
           /\ runs[n].aborted > 0
           /\ Last(runs[n].events).ev = "foundUrl"

\* --------------------------------------------------------------------------
\* C10: a failed fetch of a link-following run fires "error" once and last,
\* with the error text of the URL fetched last; nothing stays outstanding
\* and "done" does not fire.  A fetch that has ended never leaves the run
\* without a notification unless a callback threw.
\* --------------------------------------------------------------------------
C10_FailureEndsFollowing ==
    \A n \in FollowRuns :
        LET r == runs[n]
        IN  /\ Fired(r, "error") <= 1
            /\ Fired(r, "error") = 1 =>
                   /\ Last(r.events).ev = "error"
                   /\ r.events[Len(r.events) - 1].ev = "fetch"
                   /\ Last(r.events).arg =
                          ErrorText(unshorten(r.events[Len(r.events) - 1].arg), "Not Found")
                   /\ Fired(r, "done") = 0
                   /\ Quiet(n)
            /\ (Last(r.events).ev = "fetch" /\ Quiet(n)) => r.crashed

\* the fetch of the second post of a series failed
C10_Witness ==
    \E n \in FollowRuns :
        /\ Fired(runs[n], "error") = 1
        /\ Fired(runs[n], "collected") = 1
        /\ Fired(runs[n], "foundUrl") = 1

\* --------------------------------------------------------------------------
\* C6: a request is sent only when every earlier request has completed, the
\* latest of them at least the minimum interval ago.
\* --------------------------------------------------------------------------
C6_RequestsAreSpaced ==
    [][xhrs' \ xhrs # {} =>
           /\ xhrs = {}
           /\ lastDoneAt >= 0 => now >= lastDoneAt + timeInMsBetweenRequests]_vars

\* --------------------------------------------------------------------------
\* C7: a cached fetch of a URL that was fetched with success before sends
\* no request and resolves with the value of the first success: the post
\* handed on is the post of that value.
\* --------------------------------------------------------------------------
\* the events run n had before the step
EventsBefore(n) == IF n <= Len(runs) THEN Len(runs[n].events) ELSE 0

C7_CachedValueIsTheFirst ==
    [][\A n \in 1..Len(runs') :
           \A p \in (EventsBefore(n) + 1)..Len(runs'[n].events) :
               LET e == runs'[n].events[p]
                   u == unshorten(e.arg)
               IN  (e.ev = "fetch" /\ u \in DOMAIN firstJson /\ HasPostShape(firstJson[u])) =>
                       /\ \A t \in timers' \ timers : ~(t.run = n /\ t.url = u)
                       /\ p < Len(runs'[n].events)
                       /\ runs'[n].events[p + 1].ev = "collected"
                       /\ runs'[n].events[p + 1].arg.content
                              = collectPost(firstJson[u]).content]_vars

\* --------------------------------------------------------------------------
\* C8: at most one request of the fetch layer is in flight.
\* --------------------------------------------------------------------------
C8_OneRequestInFlight == Cardinality(xhrs) <= 1

\* --------------------------------------------------------------------------
\* C11: a 200 response that has not the structure of a post is reported as
\* a failure: the fetch of a batch or of a link-following run never ends
\* without a notification ("error" in this case), and no callback throws.
\* --------------------------------------------------------------------------
C11_ShapeFailureIsReported ==
    \A n \in BatchRuns \cup FollowRuns :
        LET r == runs[n]
        IN  /\ ~r.crashed
            /\ (r.events # <<>> /\ Last(r.events).ev = "fetch") => ~Quiet(n)

\* --------------------------------------------------------------------------
\* Reading a discovery from a listing page
\* --------------------------------------------------------------------------
WikiRuns == {n \in 1..Len(runs) : runs[n].kind = "wiki"}

\* the response to the request of the page has arrived; the response
PageSeen(r) == r.url \in DOMAIN requestRedditJsonCache
PageOf(r)   == requestRedditJsonCache[r.url]
DocOf(r)    == PageOf(r).data.content_html

IsListing(json) == json.kind = "wikipage" /\ HasContent(json)

\* the links of a page that yield an identifier
Identified(links) ==
    SelectSeq(links, LAMBDA l : l.href # Null /\ nameFromURL(l.href) # Undefined)

\* the Series a discovery has delivered, and the post of its first part
SeriesOf(r)    == EventsOf(r, "completion")[1].arg
FirstPostOf(r) == collectPost(requestRedditJsonCache[unshorten(SeriesOf(r).parts[1].url)])

\* --------------------------------------------------------------------------
\* C12: a discovery whose listing page has no link with an identifier
\* delivers a Series without parts and fetches no post; a discovery that
\* has fetched something and has nothing outstanding has called its
\* completion or its error callback.
\* --------------------------------------------------------------------------
C12_EmptyListingCompletes ==
    \A n \in WikiRuns :
        LET r == runs[n]
        IN  /\ (PageSeen(r) /\ IsListing(PageOf(r)) /\ Identified(DocOf(r).links) = <<>>)
                   => /\ Fired(r, "completion") = 1
                      /\ SeriesOf(r).parts = <<>>
                      /\ Fired(r, "fetch") = 1
            /\ (r.events # <<>> /\ Quiet(n))
                   => Fired(r, "completion") + Fired(r, "error") >= 1

\* --------------------------------------------------------------------------
\* C13: a discovery whose page is not of kind "wikipage" calls its error
\* callback once, with the text that names the URL, never its completion
\* callback; it extracts no parts and fetches nothing further.
\* --------------------------------------------------------------------------
C13_OtherKindFails ==
    \A n \in WikiRuns :
        LET r == runs[n]
        IN  (PageSeen(r) /\ PageOf(r).kind # "wikipage")
                => /\ Fired(r, "error") = 1
                   /\ EventsOf(r, "error")[1].arg = NotAWikiPage(r.url)
                   /\ Fired(r, "completion") = 0
                   /\ r.parts = <<>>
                   /\ Fired(r, "fetch") = 1

\* --------------------------------------------------------------------------
\* C14: the parts of a Series that a discovery delivers are the links of
\* the page that yield an identifier, in document order and no others; each
\* part carries the href of its link as url, the text of the link as title
\* and the identifier of the url as name.  A discovery of a page with such
\* a link that has nothing outstanding and saw no error or exception has
\* delivered its Series.
\* --------------------------------------------------------------------------
C14_PartsAreTheIdentifiedLinks ==
    \A n \in WikiRuns :
        LET r == runs[n]
        IN  /\ Fired(r, "completion") <= 1
            /\ Fired(r, "completion") = 1 =>
                   LET parts == SeriesOf(r).parts
                       links == Identified(DocOf(r).links)
                   IN  /\ Len(parts) = Len(links)
                       /\ \A i \in 1..Len(parts) :
                              /\ parts[i].url = links[i].href
                              /\ parts[i].title = links[i].text
                              /\ parts[i].name = nameFromURL(parts[i].url)
                              /\ parts[i].name \in Ids
            /\ (PageSeen(r) /\ Quiet(n) /\ ~r.crashed /\ Fired(r, "error") = 0
                   /\ Identified(DocOf(r).links) # <<>>)
                   => Fired(r, "completion") = 1

\* a Series of two parts, in the order of the page, from a page with a link
\* to another site between them
C14_Witness ==
    \E n \in WikiRuns :
        /\ Fired(runs[n], "completion") = 1
        /\ DocOf(runs[n]).links = <<PartB, Home, PartA>>
        /\ Len(SeriesOf(runs[n]).parts) = 2

\* --------------------------------------------------------------------------
\* C18: the headings of a page, first by level and then by document order
\* --------------------------------------------------------------------------
HeadingsOf(doc) == doc.h1 \o doc.h2 \o doc.h3

\* a discovery delivers its Series after the fetch of the page and of one
\* post, that of the first part, whose author is the author of the Series
BackfilledFromFirstPart(r) ==
    /\ SeriesOf(r).parts # <<>>
    /\ SeriesOf(r).author = FirstPostOf(r).author
    /\ Fired(r, "fetch") = 2
    /\ EventsOf(r, "fetch")[2].arg = SeriesOf(r).parts[1].url

\* C18 as amended: the title of a delivered Series is the text of the first
\* heading of the highest level that has a heading, unless that text is
\* empty or the page has no heading of level 1 to 3: then it is the title
\* of the post of the first part.  The author is the author of that post,
\* the only post fetched.
C18_TitleIsTheFirstHeadingUnlessEmpty ==
    \A n \in WikiRuns :
        LET r == runs[n]
        IN  Fired(r, "completion") = 1 =>
                /\ BackfilledFromFirstPart(r)
                /\ SeriesOf(r).title =
                       IF HeadingsOf(DocOf(r)) = <<>> \/ Head(HeadingsOf(DocOf(r))) = EmptyString
                       THEN FirstPostOf(r).title
                       ELSE Head(HeadingsOf(DocOf(r)))

\* a Series from a page that has headings of level 2 and 3 and none of
\* level 1
C18_Witness ==
    \E n \in WikiRuns :
        /\ Fired(runs[n], "completion") = 1
        /\ DocOf(runs[n]).h1 = <<>>
        /\ DocOf(runs[n]).h2 # <<>>
        /\ DocOf(runs[n]).h3 # <<>>

\* C18: the title of a delivered Series is the first heading of level 1 if
\* one exists, else the first of level 2, else the first of level 3, else
\* the title of the post of the first part; the author is the author of
\* that post, the only post fetched.
C18_TitleIsTheFirstHeading ==
    \A n \in WikiRuns :
        LET r == runs[n]
        IN  Fired(r, "completion") = 1 =>
                /\ BackfilledFromFirstPart(r)
                /\ SeriesOf(r).title =
                       IF HeadingsOf(DocOf(r)) = <<>>
                       THEN FirstPostOf(r).title
                       ELSE Head(HeadingsOf(DocOf(r)))

\* --------------------------------------------------------------------------
\* C15: unshorten maps every accepted spelling of a URL, short or long and
\* in any letter case, to the canonical URL of the lowercase identifier; so
\* two URLs that name one identifier have one normal form, and the normal
\* form of a normal form is itself.
\* --------------------------------------------------------------------------
UnshortenCalls == {n \in 1..Len(runs) : runs[n].kind = "unshorten"}
ResultOf(n)    == runs[n].events[1].arg

\* the lowercase identifiers url names in some accepted spelling
Names(url) == {a.low : a \in {b \in AcceptedSpellings : b.url = url}}

C15_NormalizeIsCanonical ==
    LET names == [n \in UnshortenCalls |-> Names(runs[n].url)]
    IN  \A n \in UnshortenCalls :
            /\ \A low \in names[n] :
                   ResultOf(n) = <<"https://www.reddit.com/", "r/HFY/comments/">> \o low \o <<"/">>
            /\ \A m \in UnshortenCalls :
                   names[n] \cap names[m] # {} => ResultOf(n) = ResultOf(m)
            /\ runs[n].from > 0 => ResultOf(n) = ResultOf(runs[n].from)

\* a short and a long URL spell one identifier of two letters in two ways
C15_Witness ==
    /\ Len(runs) = 2
    /\ runs[1].url = Spell("SHORT", <<"a", "B">>)
    /\ runs[2].url = Spell("long", <<"A", "b">>)
    /\ ResultOf(1) = ResultOf(2)

\* --------------------------------------------------------------------------
\* C16: a URL of neither form has no identifier, unshorten hands the
\* undefined on, and no request is made and no cache entry created for a
\* URL built from the undefined identifier.
\* --------------------------------------------------------------------------
C16_UndefinedIsRejected ==
    /\ \A n \in BatchRuns : \A i \in 1..Len(runs[n].parts) :
           nameFromURL(runs[n].parts[i].url) = Undefined
               => unshorten(runs[n].parts[i].url) = Undefined
    /\ \A t \in timers : t.url # urlFromName(Undefined)
    /\ \A x \in xhrs : x.url # urlFromName(Undefined)
    /\ urlFromName(Undefined) \notin DOMAIN requestRedditJsonCache

\* --------------------------------------------------------------------------
\* C17: a request that fails leaves the cache as it was, calls the error
\* callback once and is not sent again; a cached fetch of a URL that is not
\* in the cache, also one that failed before, makes a new request.
\* --------------------------------------------------------------------------
C17_FailureLeavesCacheAlone ==
    [][/\ \A x \in xhrs \ xhrs' :
              LET before == runs[x.run].events
                  after  == runs'[x.run].events
              IN  (Len(after) > Len(before) /\ after[Len(before) + 1].ev = "error") =>
                      /\ requestRedditJsonCache' = requestRedditJsonCache
                      /\ Len(after) = Len(before) + 1
                      /\ timers' = timers
       /\ \A n \in 1..Len(runs') :
              (Len(runs'[n].events) > EventsBefore(n) /\ Last(runs'[n].events).ev = "fetch"
                  /\ unshorten(Last(runs'[n].events).arg) \notin DOMAIN requestRedditJsonCache')
                  => \E t \in timers' \ timers :
                         t.run = n /\ t.url = unshorten(Last(runs'[n].events).arg)]_vars

\* the fetch of a URL failed for one run, the URL is not cached, and a
\* fetch of it by the other run waits the minimum interval from that failure
C17_Witness ==
    \E n \in BatchRuns, m \in FollowRuns :
        /\ Fired(runs[n], "error") = 1
        /\ xhrs = {}
        /\ \E t \in timers :
               /\ t.run = m
               /\ EventsOf(runs[n], "error")[1].arg.message = ErrorText(t.url, "Not Found")
               /\ t.url \notin DOMAIN requestRedditJsonCache
               /\ lastDoneAt >= 0
               /\ t.at = lastDoneAt + timeInMsBetweenRequests

\* --------------------------------------------------------------------------
\* C19: the minimum interval is 2000 ms until the user sets the delay, and
\* then the seconds entered last times 1000; every request waits
\* max(0, timeOfLastRealRequest + interval - now) ms before it is sent.
\* --------------------------------------------------------------------------
DelayInputs == {n \in 1..Len(runs) : runs[n].kind = "delay"}

Setting ==
    IF DelayInputs = {}
    THEN 2000
    ELSE runs[CHOOSE n \in DelayInputs : \A m \in DelayInputs : m <= n].seconds * 1000

C19_SettingKeepsTheSpacing ==
    [][\A t \in timers' \ timers :
           t.at = now' + Max(0, timeOfLastRealRequest' + Setting' - now')]_vars

\* --------------------------------------------------------------------------
\* C20: the events of a link-following run are in order.  The fetch of every
\* post but the first directly follows the "foundUrl" notification of its
\* URL; "collected" directly follows the fetch of its post; "foundUrl"
\* directly follows the "collected" of the post that holds the link; "done"
\* is the last event and follows the last "collected".
\* --------------------------------------------------------------------------
C20_EventsAreInOrder ==
    \A n \in FollowRuns :
        LET e == runs[n].events
        IN  /\ e # <<>> => e[1] = [ev |-> "fetch", i |-> 0, arg |-> runs[n].startUrl]
            /\ \A p \in 2..Len(e) :
                   /\ e[p].ev = "fetch" =>
                          e[p - 1].ev = "foundUrl" /\ e[p - 1].arg = e[p].arg
                   /\ e[p].ev = "collected" =>
                          /\ e[p - 1].ev = "fetch"
                          /\ e[p].arg.name = nameFromURL(e[p - 1].arg)
                   /\ e[p].ev = "foundUrl" =>
                          /\ e[p - 1].ev = "collected"
                          /\ \E l \in 1..Len(e[p - 1].arg.content) :
                                 e[p - 1].arg.content[l].href = e[p].arg
                   /\ e[p].ev = "done" =>
                          /\ p = Len(e)
                          /\ e[p - 1].ev = "collected"
                          /\ Fired(runs[n], "collected") = Len(e[p].arg)

\* a run from the long URL of post b that went on to two more posts
C20_Witness ==
    \E n \in FollowRuns :
        /\ runs[n].startUrl = LongURL(IdB)
        /\ Len(runs[n].events) = 9
        /\ Last(runs[n].events).ev = "done"

\* --------------------------------------------------------------------------
\* C21: findNextURL returns the href of the first link, in document order,
\* whose text matches the pattern and whose identifier is not in the
\* visited list, and null exactly when no link is of that kind; so it never
\* returns a link whose text does not match or whose post was visited.
\* --------------------------------------------------------------------------
FindNextCalls == {n \in 1..Len(runs) : runs[n].kind = "findNextURL"}

C21_FirstMatchingUnvisitedLink ==
    \A n \in FindNextCalls :
        LET content == runs[n].content
            visited == {runs[n].previousNames[p] : p \in 1..Len(runs[n].previousNames)}
            links   == Unvisited(content, visited)
            result  == runs[n].events[1].arg
        IN  /\ result = Null <=> links = {}
            /\ links # {} =>
                   \E i \in links :
                       /\ \A h \in links : i <= h
                       /\ result = content[i].href

\* a matching link to a visited post, in another form than the visited one
\* was fetched in, is passed over for the matching link behind it
C21_Witness ==
    \E n \in FindNextCalls :
        /\ runs[n].content = <<NextA, NextB>>
        /\ runs[n].previousNames = <<IdA>>
        /\ runs[n].events[1].arg = ShortURL(IdB)

\* --------------------------------------------------------------------------
\* C22: no two requests for one URL are outstanding, waiting for their
\* timer or for their response, at the same time.
\* --------------------------------------------------------------------------
C22_OneRequestPerURL ==
    \A u \in {t.url : t \in timers} \cup {x.url : x \in xhrs} :
        Cardinality({t \in timers : t.url = u}) + Cardinality({x \in xhrs : x.url = u}) <= 1

=============================================================================
